---- MODULE Spec2Model ----
(***************************************************************************)
(* Model of the UP Central Bank backend (src/app.py): a Flask service over *)
(* a Firestore database.  The state is the "users" collection, the         *)
(* "config/global" document and, for every request handler that is in      *)
(* flight, its position and its local variables.  Every action is one      *)
(* handler step between two database accesses.                             *)
(***************************************************************************)
EXTENDS Integers, Sequences, FiniteSets, TLC

(***************************************************************************)
(* Bounds of the model.                                                    *)
(***************************************************************************)
\* Requests received (and writes of the config document) in one run.
MaxRequests == 2
\* Ticks of the wall clock (datetime.now() of a registration).
MaxClock == 2

Users == {"alice", "bob"}
Workers == {1, 2}
Messages == {"Stop spamming"}
LockMessages == {"maintenance"}

(***************************************************************************)
(* Program constants.                                                      *)
(***************************************************************************)
ADMIN_USERNAME == "-GeometricalCoder-"
InitialGrant == 1000
\* max_attempts of a firestore transaction (@firestore.transactional)
MaxAttempts == 5

Requesters == {ADMIN_USERNAME, "alice"}

(***************************************************************************)
(* Python floats.  A balance or an amount is a float: a finite value (the  *)
(* values of the model are integers, which doubles hold exactly) or nan.   *)
(* Arithmetic with nan gives nan and every comparison with nan is False.   *)
(***************************************************************************)
NaN == [k |-> "nan", v |-> 0]
Fin(n) == [k |-> "fin", v |-> n]
IsNaN(x) == x.k = "nan"
FAdd(x, y) == IF IsNaN(x) \/ IsNaN(y) THEN NaN ELSE Fin(x.v + y.v)
FSub(x, y) == IF IsNaN(x) \/ IsNaN(y) THEN NaN ELSE Fin(x.v - y.v)
FLt(x, y) == ~IsNaN(x) /\ ~IsNaN(y) /\ x.v < y.v
FLe(x, y) == ~IsNaN(x) /\ ~IsNaN(y) /\ x.v <= y.v
\* x >= 0, as the spec's balance invariant reads it
FNonNeg(x) == ~IsNaN(x) /\ x.v >= 0

(***************************************************************************)
(* The "amount" of a request body as JSON carries it, and float() of it:   *)
(* a number converts to itself, the string "nan" to nan, and None or a     *)
(* string that is no number raises (the bare except answers 400).          *)
(***************************************************************************)
JNum(n) == [t |-> "num", n |-> n, s |-> ""]
JStr(s) == [t |-> "str", n |-> 0, s |-> s]
JNull == [t |-> "null", n |-> 0, s |-> ""]
RawAmounts == {JNull, JStr("nan"), JNum(0), JNum(600)}
Invalid == [k |-> "invalid", v |-> 0]
ToFloat(raw) ==
  IF raw.t = "num" THEN Fin(raw.n)
  ELSE IF raw.t = "str" /\ raw.s = "nan" THEN NaN
  ELSE Invalid

(***************************************************************************)
(* hash_IP: a missing address gives "unknown"; otherwise the first two     *)
(* characters are cut when the address is longer than two, and the digest  *)
(* of the rest is kept.  A digest is modelled by the string it digests     *)
(* (sha256 is taken to be injective), tagged so that it never equals the   *)
(* sentinel.                                                               *)
(***************************************************************************)
NoAddr == <<>>
RawAddrs == {NoAddr, <<"1", "0", "7">>, <<"2", "0", "7">>}
Unknown == <<"unknown">>
hash_IP(ip) ==
  IF ip = <<>> THEN Unknown
  ELSE LET cut_ip == IF Len(ip) > 2 THEN SubSeq(ip, 3, Len(ip)) ELSE ip
       IN  <<"sha256">> \o cut_ip

(***************************************************************************)
(* Documents of the "users" collection and the "config/global" document.   *)
(***************************************************************************)
NoData == [username |-> "", uid |-> "", ipHash |-> <<>>, balance |-> Fin(0),
           bio |-> "", country |-> "", joinDate |-> 0, activity |-> <<>>,
           warning |-> ""]
NoDoc == [exists |-> FALSE, data |-> NoData]
Doc(data) == [exists |-> TRUE, data |-> data]
\* warning: None
None == ""

join_activity(username, now) == [type |-> 1, user |-> username, date |-> now]
\* (faulty variant: the join entry is not put into the activity list)
new_user_data_no_join(username, ip, now) ==
  [username |-> username,
   uid      |-> username,
   ipHash   |-> hash_IP(ip),
   balance  |-> Fin(InitialGrant),
   bio      |-> "New to UP Currency!",
   country  |-> "Unknown",
   joinDate |-> now,
   activity |-> <<>>,
   warning  |-> None]
new_user_data(username, ip, now) ==
  [username |-> username,
   uid      |-> username,   \* the Scratch id of the user, one per username
   ipHash   |-> hash_IP(ip),
   balance  |-> Fin(InitialGrant),
   bio      |-> "New to UP Currency!",
   country  |-> "Unknown",
   joinDate |-> now,
   activity |-> <<join_activity(username, now)>>,
   warning  |-> None]

NoConfig == [exists |-> FALSE, isLocked |-> FALSE, lockMessage |-> ""]
Configs == {NoConfig} \cup
           [exists : {TRUE}, isLocked : BOOLEAN, lockMessage : LockMessages]
\* get_config: the stored record, or the unlocked default when it is absent
\* (faulty variant: the stored record is ignored)
get_config_default(c) == [isLocked |-> FALSE, lockMessage |-> ""]
get_config(c) ==
  IF c.exists THEN [isLocked |-> c.isLocked, lockMessage |-> c.lockMessage]
  ELSE [isLocked |-> FALSE, lockMessage |-> ""]

VARIABLES
  db,          \* users collection: username -> document
  config,      \* the config/global document
  clock,       \* datetime.now()
  started,     \* requests received and config writes made so far
  getDefault,  \* whether DocumentSnapshot.get of the installed library takes a default
  pc,          \* per worker: position of the request it handles
  req,         \* per worker: the request it handles (or handled last)
  loc,         \* per worker: the handler's local variables
  last,        \* the request answered last: its number, the request, its response
  serial       \* history: the balances the committed writes give one at a time

vars == <<db, config, clock, started, getDefault, pc, req, loc, last, serial>>

(***************************************************************************)
(* Requests and responses.                                                 *)
(***************************************************************************)
NoReq == [op |-> "", username |-> "", verified |-> FALSE, ip |-> <<>>,
          sender |-> "", recipient |-> "", amount |-> JNull,
          admin |-> "", target |-> "", message |-> ""]
VerifyReq(u, v, ip) ==
  [NoReq EXCEPT !.op = "verify", !.username = u, !.verified = v, !.ip = ip]
TransferReq(s, r, a) ==
  [NoReq EXCEPT !.op = "transfer", !.sender = s, !.recipient = r, !.amount = a]
WarnReq(a, t, m) ==
  [NoReq EXCEPT !.op = "warn", !.admin = a, !.target = t, !.message = m]
UserReq(op, u) == [NoReq EXCEPT !.op = op, !.username = u]

NoFloat == [k |-> "none", v |-> 0]
NoResp == [code |-> 0, error |-> "", message |-> "", new_balance |-> NoFloat,
           data |-> NoDoc, leaderboard |-> <<>>]
Ok(message) == [NoResp EXCEPT !.code = 200, !.message = message]
Err(code, error) == [NoResp EXCEPT !.code = code, !.error = error]

loc0 == [n |-> 0, amount |-> NoFloat, sender_snapshot |-> NoDoc,
         recipient_snapshot |-> NoDoc, user_doc |-> NoDoc, now |-> 0,
         attempt |-> 0, stale |-> FALSE]

\* the documents worker w has read in the running attempt of its transaction
ReadSet(w) ==
  IF pc[w] = "t_read_recipient" THEN {req[w].sender}
  ELSE IF pc[w] = "t_commit" THEN {req[w].sender, req[w].recipient}
  ELSE {}

\* the locals of all workers after a write to the documents `docs`: a
\* transaction in flight that read one of them can no longer commit
Touched(docs) ==
  [w \in Workers |->
     IF ReadSet(w) \cap docs # {} THEN [loc[w] EXCEPT !.stale = TRUE]
     ELSE loc[w]]

\* worker w answers its request, having written the documents `docs`
Finish(w, response, docs) ==
  /\ pc' = [pc EXCEPT ![w] = "idle"]
  /\ req' = [req EXCEPT ![w] = NoReq]
  /\ loc' = [Touched(docs) EXCEPT ![w] = loc0]
  /\ last' = [n |-> loc[w].n, req |-> req[w], resp |-> response]

\* a request is received: by the first idle worker, the workers being alike
Receive(w) ==
  /\ pc[w] = "idle"
  /\ \A v \in Workers : v < w => pc[v] # "idle"
  /\ started < MaxRequests
  /\ started' = started + 1

\* a one-step request: it is answered in the step that receives it
Answer(request, response, docs) ==
  /\ \E w \in Workers : Receive(w)
  /\ last' = [n |-> started', req |-> request, resp |-> response]
  /\ loc' = Touched(docs)
  /\ UNCHANGED <<pc, req>>

(***************************************************************************)
(* Firestore transactions.  A transaction that read a document commits     *)
(* only when no write reached that document since the read; the commit is  *)
(* aborted otherwise and @firestore.transactional runs the function again, *)
(* MaxAttempts times at most.                                              *)
(***************************************************************************)
\* (faulty variant: a commit is never aborted)
ConflictNever(l) == FALSE
Conflict(l) == l.stale

(***************************************************************************)
(* The balances the committed writes give when they are applied one at a   *)
(* time, in the order of their commits (history variable): `ok` is lost    *)
(* when a committed transfer would not have passed the code's checks there.*)
(***************************************************************************)
NoBal == [exists |-> FALSE, balance |-> Fin(0)]
Bal(b) == [exists |-> TRUE, balance |-> b]
BalancesOf(d) ==
  [u \in Users |-> IF d[u].exists THEN Bal(d[u].data.balance) ELSE NoBal]
\* one transfer run alone on the serial balances, with the code's checks
SerialTransfer(ser, s, r, amount) ==
  IF ser.bal[s].exists /\ ser.bal[r].exists /\ ~FLt(ser.bal[s].balance, amount)
  THEN [ser EXCEPT !.bal[s].balance = FSub(ser.bal[s].balance, amount),
                   !.bal[r].balance = FAdd(ser.bal[r].balance, amount)]
  ELSE [ser EXCEPT !.ok = FALSE]
SerialSet(ser, u, b) == [ser EXCEPT !.bal[u] = b]

(***************************************************************************)
(* POST /auth/verify (verify_user).  The Scratch comment check is the      *)
(* request's `verified`.  First step: the check and user_ref.get(); second *)
(* step: user_ref.set() or user_ref.update().                              *)
(***************************************************************************)
\* user_ref.set(new_user_data): the document is written whole
verify_register(d, username, ip, now) ==
  [d EXCEPT ![username] = Doc(new_user_data(username, ip, now))]

\* user_ref.update({"ipHash": ...}): only that field is written
\* (faulty variant: the snapshot read earlier is written back whole)
verify_login_set(d, username, ip, user_doc) ==
  [d EXCEPT ![username] = Doc([user_doc.data EXCEPT !.ipHash = hash_IP(ip)])]
verify_login(d, username, ip, user_doc) ==
  [d EXCEPT ![username].data.ipHash = hash_IP(ip)]

\* (faulty variant: the comment check of lines 74-79 is left out)
StartVerifyUnchecked(w, username, verified, ip) ==
  /\ Receive(w)
  /\ db[username].exists \/ clock < MaxClock
  /\ clock' = IF db[username].exists THEN clock ELSE clock + 1
  /\ pc' = [pc EXCEPT ![w] = "v_write"]
  /\ req' = [req EXCEPT ![w] = VerifyReq(username, verified, ip)]
  /\ loc' = [loc EXCEPT ![w] = [loc0 EXCEPT !.n = started',
                                            !.user_doc = db[username],
                                            !.now = clock']]
  /\ UNCHANGED <<db, config, getDefault, last, serial>>
StartVerify(w, username, verified, ip) ==
  /\ Receive(w)
  /\ IF ~verified
     THEN /\ last' = [n |-> started', req |-> VerifyReq(username, verified, ip),
                      resp |-> Err(401, "Verification code not found in recent comments.")]
          /\ UNCHANGED <<db, config, clock, getDefault, pc, req, loc, serial>>
     ELSE /\ db[username].exists \/ clock < MaxClock
          /\ clock' = IF db[username].exists THEN clock ELSE clock + 1
          /\ pc' = [pc EXCEPT ![w] = "v_write"]
          /\ req' = [req EXCEPT ![w] = VerifyReq(username, verified, ip)]
          /\ loc' = [loc EXCEPT ![w] = [loc0 EXCEPT !.n = started',
                                                    !.user_doc = db[username],
                                                    !.now = clock']]
          /\ UNCHANGED <<db, config, getDefault, last, serial>>

VerifyWrite(w) ==
  /\ pc[w] = "v_write"
  /\ LET username == req[w].username
         ip == req[w].ip
         user_doc == loc[w].user_doc
     IN  IF ~user_doc.exists
         THEN /\ db' = verify_register(db, username, ip, loc[w].now)
              /\ serial' = SerialSet(serial, username, Bal(db'[username].data.balance))
              /\ Finish(w, [Ok("Account created!") EXCEPT
                              !.data = Doc(new_user_data(username, ip, loc[w].now))],
                        {username})
         ELSE IF db[username].exists
         THEN /\ db' = verify_login(db, username, ip, user_doc)
              /\ UNCHANGED serial
              /\ Finish(w, [Ok("Logged in successfully") EXCEPT !.data = user_doc],
                        {username})
         ELSE \* update of a document that is gone: NotFound, caught at line 111
              /\ Finish(w, Err(500, "Authentication server error"), {})
              /\ UNCHANGED <<db, serial>>
  /\ UNCHANGED <<config, clock, started, getDefault>>

(***************************************************************************)
(* POST /transaction/send (send_currency, handle_transfer).  First step:   *)
(* the validation and get_config(); then, per attempt of the transaction,  *)
(* the two reads and the commit.                                           *)
(***************************************************************************)
\* lines 139-153: the response of a rejected request, NoResp when it passes
send_currency_checks(raw, sender_id, recipient_id, cfg) ==
  LET amount == ToFloat(raw)
  IN  IF amount = Invalid THEN Err(400, "Invalid amount")
      ELSE IF FLe(amount, Fin(0)) THEN Err(400, "Amount must be positive")
      ELSE IF sender_id = recipient_id THEN Err(400, "Cannot send money to yourself")
      ELSE IF cfg.isLocked
      THEN [Err(503, "System Locked") EXCEPT !.message = cfg.lockMessage]
      ELSE NoResp

\* the body of handle_transfer on the two snapshots: what it raises, or the
\* two balances it hands to transaction.update and the result it returns.
\* recipient_snapshot.get("balance", 0) passes a default to
\* DocumentSnapshot.get: it raises TypeError where get takes the path alone.
Raise(what) == [raised |-> what, sender_balance |-> NoFloat,
                recipient_balance |-> NoFloat, new_balance |-> NoFloat]
\* (faulty variant: the balance read is returned, not the balance written)
handle_transfer_old_balance(sender_snapshot, recipient_snapshot, amount, takesDefault) ==
  IF ~sender_snapshot.exists THEN Raise("Sender does not exist")
  ELSE IF ~recipient_snapshot.exists THEN Raise("Recipient does not exist")
  ELSE LET current_balance == sender_snapshot.data.balance
       IN  IF FLt(current_balance, amount) THEN Raise("Insufficient funds")
           ELSE IF ~takesDefault
           THEN [Raise("TypeError") EXCEPT
                   !.sender_balance = FSub(current_balance, amount)]
           ELSE [raised |-> "",
                 sender_balance |-> FSub(current_balance, amount),
                 recipient_balance |-> FAdd(recipient_snapshot.data.balance, amount),
                 new_balance |-> current_balance]
handle_transfer(sender_snapshot, recipient_snapshot, amount, takesDefault) ==
  IF ~sender_snapshot.exists THEN Raise("Sender does not exist")
  ELSE IF ~recipient_snapshot.exists THEN Raise("Recipient does not exist")
  ELSE LET current_balance == sender_snapshot.data.balance
       IN  IF FLt(current_balance, amount) THEN Raise("Insufficient funds")
           ELSE IF ~takesDefault
           THEN \* line 184 has buffered the sender's update when line 185 raises
                [Raise("TypeError") EXCEPT
                   !.sender_balance = FSub(current_balance, amount)]
           ELSE [raised |-> "",
                 sender_balance |-> FSub(current_balance, amount),
                 recipient_balance |-> FAdd(recipient_snapshot.data.balance, amount),
                 new_balance |-> FSub(current_balance, amount)]

\* the commit of the two buffered updates: both documents in one write
\* (faulty variant: the credit is left out of the write)
CommitDebitOnly(d, s, r, out) ==
  [d EXCEPT ![s].data.balance = out.sender_balance]
Commit(d, s, r, out) ==
  [d EXCEPT ![s].data.balance = out.sender_balance,
            ![r].data.balance = out.recipient_balance]

\* the collection after a transaction that raised or was aborted: the
\* buffered updates are dropped (rollback)
\* (faulty variant: the sender's update of line 184 is written at once and
\* stays when the transaction ends without a commit)
RollbackKeepsDebit(d, s, r, out) ==
  IF out.sender_balance # NoFloat /\ d[s].exists
  THEN [d EXCEPT ![s].data.balance = out.sender_balance]
  ELSE d
Rollback(d, s, r, out) == d

StartTransfer(w, sender_id, recipient_id, raw) ==
  /\ Receive(w)
  /\ LET rejected == send_currency_checks(raw, sender_id, recipient_id,
                                          get_config(config))
     IN  IF rejected # NoResp
         THEN /\ last' = [n |-> started',
                          req |-> TransferReq(sender_id, recipient_id, raw),
                          resp |-> rejected]
              /\ UNCHANGED <<pc, req, loc>>
         ELSE /\ pc' = [pc EXCEPT ![w] = "t_read_sender"]
              /\ req' = [req EXCEPT ![w] = TransferReq(sender_id, recipient_id, raw)]
              /\ loc' = [loc EXCEPT ![w] = [loc0 EXCEPT !.n = started',
                                                        !.amount = ToFloat(raw),
                                                        !.attempt = 1]]
              /\ UNCHANGED last
  /\ UNCHANGED <<db, config, clock, getDefault, serial>>

\* line 169
TxnReadSender(w) ==
  /\ pc[w] = "t_read_sender"
  /\ pc' = [pc EXCEPT ![w] = "t_read_recipient"]
  /\ loc' = [loc EXCEPT ![w].sender_snapshot = db[req[w].sender]]
  /\ UNCHANGED <<db, config, clock, started, getDefault, req, last, serial>>

\* lines 170-190: the second read and the body, up to the commit
TxnReadRecipient(w) ==
  /\ pc[w] = "t_read_recipient"
  /\ LET recipient_snapshot == db[req[w].recipient]
         out == handle_transfer(loc[w].sender_snapshot, recipient_snapshot,
                                loc[w].amount, getDefault)
     IN  IF out.raised # ""
         THEN /\ db' = Rollback(db, req[w].sender, req[w].recipient, out)
              /\ Finish(w, Err(400, out.raised), {})
         ELSE /\ pc' = [pc EXCEPT ![w] = "t_commit"]
              /\ loc' = [loc EXCEPT ![w].recipient_snapshot = recipient_snapshot]
              /\ UNCHANGED <<db, req, last>>
  /\ UNCHANGED <<config, clock, started, getDefault, serial>>

\* transaction._commit(), and what @firestore.transactional does with it
TxnCommit(w) ==
  /\ pc[w] = "t_commit"
  /\ LET s == req[w].sender
         r == req[w].recipient
         out == handle_transfer(loc[w].sender_snapshot, loc[w].recipient_snapshot,
                                loc[w].amount, getDefault)
     IN  IF ~Conflict(loc[w])
         THEN /\ db' = Commit(db, s, r, out)
              /\ serial' = SerialTransfer(serial, s, r, loc[w].amount)
              /\ Finish(w, [Ok("") EXCEPT !.new_balance = out.new_balance], {s, r})
         ELSE IF loc[w].attempt < MaxAttempts
         THEN /\ pc' = [pc EXCEPT ![w] = "t_read_sender"]
              /\ loc' = [loc EXCEPT ![w] = [loc0 EXCEPT !.n = loc[w].n,
                                                        !.amount = loc[w].amount,
                                                        !.attempt = loc[w].attempt + 1]]
              /\ db' = Rollback(db, s, r, out)
              /\ UNCHANGED <<req, last, serial>>
         ELSE /\ db' = Rollback(db, s, r, out)
              /\ Finish(w, Err(400, "Failed to commit transaction in 5 attempts"), {})
              /\ UNCHANGED serial
  /\ UNCHANGED <<config, clock, started, getDefault>>

(***************************************************************************)
(* The one-step handlers: each makes one database access.                  *)
(***************************************************************************)
\* POST /admin/warn
\* (faulty variant: the security check of lines 206-207 is left out)
warn_user_unchecked(admin, target, message) ==
  LET request == WarnReq(admin, target, message)
  IN  /\ IF db[target].exists
         THEN /\ db' = [db EXCEPT ![target].data.warning = message]
              /\ Answer(request, Ok("Warning set"), {target})
         ELSE /\ Answer(request, Err(500, "NotFound"), {})
              /\ UNCHANGED db
      /\ UNCHANGED <<config, clock, getDefault, serial>>
warn_user(admin, target, message) ==
  LET request == WarnReq(admin, target, message)
  IN  /\ IF admin # ADMIN_USERNAME
         THEN /\ Answer(request, Err(403, "Unauthorized"), {})
              /\ UNCHANGED db
         ELSE IF db[target].exists
         THEN /\ db' = [db EXCEPT ![target].data.warning = message]
              /\ Answer(request, Ok("Warning set"), {target})
         ELSE \* update of a missing document raises NotFound
              /\ Answer(request, Err(500, "NotFound"), {})
              /\ UNCHANGED db
      /\ UNCHANGED <<config, clock, getDefault, serial>>

\* POST /user/dismiss_warning
\* (faulty variant: set(..., merge=True) in place of update, which creates
\* the document when it is missing)
dismiss_warning_merge(username) ==
  /\ db' = [db EXCEPT ![username] =
              IF @.exists THEN [@ EXCEPT !.data.warning = None]
              ELSE Doc([NoData EXCEPT !.warning = None])]
  /\ Answer(UserReq("dismiss", username), Ok(""), {username})
  /\ UNCHANGED <<config, clock, getDefault, serial>>
dismiss_warning(username) ==
  LET request == UserReq("dismiss", username)
  IN  /\ IF db[username].exists
         THEN /\ db' = [db EXCEPT ![username].data.warning = None]
              /\ Answer(request, Ok(""), {username})
         ELSE /\ Answer(request, Err(500, "NotFound"), {})
              /\ UNCHANGED db
      /\ UNCHANGED <<config, clock, getDefault, serial>>

\* POST /user/delete
delete_account(username) ==
  /\ db' = [db EXCEPT ![username] = NoDoc]
  /\ serial' = SerialSet(serial, username, NoBal)
  /\ Answer(UserReq("delete", username), Ok("Account deleted."), {username})
  /\ UNCHANGED <<config, clock, getDefault>>

\* GET /user/data
get_user_data(username) ==
  /\ Answer(UserReq("data", username),
            IF db[username].exists THEN [Ok("") EXCEPT !.data = db[username]]
            ELSE Err(404, "User not found"),
            {})
  /\ UNCHANGED <<db, config, clock, getDefault, serial>>

\* order_by("balance", DESCENDING): nan sorts below every number, and equal
\* balances come in descending order of the document name
NameRank(u) == IF u = "alice" THEN 1 ELSE 2
\* (faulty variant: the direction is left out of order_by, which ascends then)
AboveAscending(d, u, v) ==
  LET a == d[u].data.balance
      b == d[v].data.balance
  IN  \/ FLt(a, b)
      \/ IsNaN(a) /\ ~IsNaN(b)
      \/ a = b /\ NameRank(u) < NameRank(v)
Above(d, u, v) ==
  LET a == d[u].data.balance
      b == d[v].data.balance
  IN  \/ FLt(b, a)
      \/ IsNaN(b) /\ ~IsNaN(a)
      \/ a = b /\ NameRank(u) > NameRank(v)
Entry(d, u) == [username |-> d[u].data.username, balance |-> d[u].data.balance,
                country |-> d[u].data.country]
RECURSIVE Ranked(_, _)
Ranked(d, S) ==
  IF S = {} THEN <<>>
  ELSE LET top == CHOOSE u \in S : \A v \in S \ {u} : Above(d, u, v)
       IN  <<Entry(d, top)>> \o Ranked(d, S \ {top})
Leaderboard(d) == Ranked(d, {u \in Users : d[u].exists})

\* GET /leaderboard
get_leaderboard ==
  /\ Answer(UserReq("leaderboard", ""),
            [Ok("") EXCEPT !.leaderboard = Leaderboard(db)], {})
  /\ UNCHANGED <<db, config, clock, getDefault, serial>>

\* the administrative write of config/global (made outside this service)
SetConfig(c) ==
  /\ c # config
  /\ started < MaxRequests
  /\ started' = started + 1
  /\ config' = c
  /\ UNCHANGED <<db, clock, getDefault, pc, req, loc, last, serial>>

(***************************************************************************)
(* The specification.  The database outlives the service: at the start     *)
(* each user is absent or as registered, and the config document may hold  *)
(* anything.                                                               *)
(***************************************************************************)
Init ==
  /\ db \in [Users -> {NoDoc} \cup {Doc(new_user_data(u, ip, 0)) :
                                     u \in Users, ip \in RawAddrs}]
  /\ \A u \in Users : db[u].exists => db[u].data.username = u
  /\ config = NoConfig
  /\ clock = 0
  /\ started = 0
  /\ getDefault \in BOOLEAN
  /\ pc = [w \in Workers |-> "idle"]
  /\ req = [w \in Workers |-> NoReq]
  /\ loc = [w \in Workers |-> loc0]
  /\ last = [n |-> 0, req |-> NoReq, resp |-> NoResp]
  /\ serial = [ok |-> TRUE, bal |-> BalancesOf(db)]

Next ==
  \/ \E w \in Workers, u \in Users, v \in BOOLEAN, ip \in RawAddrs :
       StartVerify(w, u, v, ip)
  \/ \E w \in Workers : VerifyWrite(w)
  \/ \E w \in Workers, s \in Users, r \in Users, raw \in RawAmounts :
       StartTransfer(w, s, r, raw)
  \/ \E w \in Workers : TxnReadSender(w)
  \/ \E w \in Workers : TxnReadRecipient(w)
  \/ \E w \in Workers : TxnCommit(w)
  \/ \E a \in Requesters, t \in Users, m \in Messages : warn_user(a, t, m)
  \/ \E u \in Users : dismiss_warning(u)
  \/ \E u \in Users : delete_account(u)
  \/ \E u \in Users : get_user_data(u)
  \/ get_leaderboard
  \/ \E c \in Configs : SetConfig(c)

Spec == Init /\ [][Next]_vars

\* Transfers alone, among accounts that all exist.
InitFixed == Init /\ \A u \in Users : db[u].exists
NextTransfers ==
  \/ \E w \in Workers, s \in Users, r \in Users, raw \in RawAmounts :
       StartTransfer(w, s, r, raw)
  \/ \E w \in Workers : TxnReadSender(w)
  \/ \E w \in Workers : TxnReadRecipient(w)
  \/ \E w \in Workers : TxnCommit(w)
SpecTransfers == InitFixed /\ [][NextTransfers]_vars

\* RegisterOrLogin and Transfer requests alone (no deletion).
NextLedger ==
  \/ \E w \in Workers, u \in Users, v \in BOOLEAN, ip \in RawAddrs :
       StartVerify(w, u, v, ip)
  \/ \E w \in Workers : VerifyWrite(w)
  \/ \E w \in Workers, s \in Users, r \in Users, raw \in RawAmounts :
       StartTransfer(w, s, r, raw)
  \/ \E w \in Workers : TxnReadSender(w)
  \/ \E w \in Workers : TxnReadRecipient(w)
  \/ \E w \in Workers : TxnCommit(w)
SpecLedger == Init /\ [][NextLedger]_vars

TypeOK ==
  /\ started \in 0..MaxRequests
  /\ clock \in 0..MaxClock
  /\ \A w \in Workers : pc[w] \in {"idle", "v_write", "t_read_sender",
                                   "t_read_recipient", "t_commit"}

(***************************************************************************)
(* Vocabulary of the properties.                                           *)
(***************************************************************************)
RECURSIVE SumOver(_, _)
SumOver(d, S) ==
  IF S = {} THEN Fin(0)
  ELSE LET u == CHOOSE x \in S : TRUE
       IN  FAdd(d[u].data.balance, SumOver(d, S \ {u}))
\* the sum of the balances of the accounts that exist
BalanceSum(d) == SumOver(d, {u \in Users : d[u].exists})

Locked == config.exists /\ config.isLocked
\* worker w takes a step of the request it handles
Steps(w) == pc'[w] # pc[w]
\* worker w answers its request in this step
Answers(w) == pc[w] # "idle" /\ pc'[w] = "idle"
\* worker w commits its transfer in this step
Commits(w) == pc[w] = "t_commit" /\ pc'[w] = "idle" /\ last'.resp.code = 200
\* a request is answered in the step that receives it
AnsweredAtOnce(op) ==
  started' = started + 1 /\ last'.n = started' /\ last'.req.op = op
Succeeded(op) == last.req.op = op /\ last.resp.code = 200

(***************************************************************************)
(* C1.  Among a fixed set of existing accounts, under any interleaving of  *)
(* Transfer requests alone, the sum of all balances stays what it was at   *)
(* the start.                                                              *)
(***************************************************************************)
C1_SumOfBalancesConserved ==
  BalanceSum(db) = Fin(Cardinality(Users) * InitialGrant)

(***************************************************************************)
(* C2.  In every reachable state every existing account has balance >= 0.  *)
(***************************************************************************)
C2_BalancesNonNegative ==
  \A u \in Users : db[u].exists => FNonNeg(db[u].data.balance)

(***************************************************************************)
(* C3.  The debit and the credit of a transfer become visible together:    *)
(* every step of a transfer that changes the collection takes it from a    *)
(* state without the debit and the credit to the state with both, so no    *)
(* read, which sees the collection between two steps, sees one without the *)
(* other.                                                                  *)
(***************************************************************************)
C3_DebitAndCreditTogether ==
  [][\A w \in Workers :
       (Steps(w) /\ req[w].op = "transfer" /\ db' # db) =>
         LET s == req[w].sender
             r == req[w].recipient
         IN  /\ db[s].exists /\ db[r].exists
             /\ db' = [db EXCEPT
                  ![s].data.balance = FSub(db[s].data.balance, loc[w].amount),
                  ![r].data.balance = FAdd(db[r].data.balance, loc[w].amount)]
             /\ db'[s].data.balance # db[s].data.balance
             /\ db'[r].data.balance # db[r].data.balance]_vars

\* a transfer of a finite amount has committed while another request was in flight
C3_Witness ==
  /\ Succeeded("transfer")
  /\ ~IsNaN(last.resp.new_balance)
  /\ \E w \in Workers : pc[w] # "idle"

(***************************************************************************)
(* C4.  Concurrent transfers lose no update: in every reachable state the  *)
(* balances are those that the committed transfers give when run one at a  *)
(* time, in the order of their commits, each passing the funds check on    *)
(* the balances its predecessors left.                                     *)
(***************************************************************************)
C4_NoLostUpdate == serial.ok /\ serial.bal = BalancesOf(db)

\* a transfer has committed, and another one sharing its accounts had read
\* them before that commit and runs again
C4_Witness ==
  /\ Succeeded("transfer")
  /\ \E w \in Workers :
       /\ req[w].op = "transfer"
       /\ loc[w].attempt >= 2
       /\ {req[w].sender, req[w].recipient}
            \cap {last.req.sender, last.req.recipient} # {}

(***************************************************************************)
(* C5.  A transfer between two existing accounts whose stored ipHash       *)
(* values are equal is rejected and changes no balance (stated here for    *)
(* the finite amounts, where it already fails).                            *)
(***************************************************************************)
C5_SameHashRejected ==
  [][\A w \in Workers :
       (/\ Answers(w) /\ req[w].op = "transfer" /\ ~IsNaN(loc[w].amount)
        /\ db[req[w].sender].exists /\ db[req[w].recipient].exists
        /\ db[req[w].sender].data.ipHash = db[req[w].recipient].data.ipHash)
       => last'.resp.code # 200 /\ db' = db]_vars

(***************************************************************************)
(* C6.  A transfer with a positive amount and sender # recipient that      *)
(* reads a locked config is answered 503 with the configured lockMessage   *)
(* and changes nothing; none goes on to the transaction; and 503 is        *)
(* answered only when the config document exists and is locked (an absent  *)
(* document is unlocked).                                                  *)
(***************************************************************************)
C6_LockedTransferRejected ==
  [][/\ \A w \in Workers :
          (pc[w] = "idle" /\ pc'[w] = "t_read_sender") => ~Locked
     /\ (/\ AnsweredAtOnce("transfer")
         /\ FLt(Fin(0), ToFloat(last'.req.amount))
         /\ last'.req.sender # last'.req.recipient)
        => IF Locked
           THEN /\ last'.resp.code = 503
                /\ last'.resp.message = config.lockMessage
                /\ db' = db
           ELSE FALSE]_vars

\* a valid transfer has been answered with the lock message
C6_Witness ==
  /\ last.req.op = "transfer"
  /\ FLt(Fin(0), ToFloat(last.req.amount))
  /\ last.resp.code = 503
  /\ last.resp.message \in LockMessages
  /\ \A u \in Users : db[u].exists

(***************************************************************************)
(* C7.  No transfer commits in a state where the config is locked, also    *)
(* when the lock is set while the transfer is in flight (stated here for   *)
(* the finite amounts, where it already fails).                            *)
(***************************************************************************)
C7_NoCommitWhileLocked ==
  [][\A w \in Workers : (Commits(w) /\ ~IsNaN(loc[w].amount)) => ~Locked]_vars

(***************************************************************************)
(* C8.  The write of a verified request whose account existed when it was  *)
(* read changes the ipHash of that account, to hash_IP of the request's    *)
(* address, and nothing else in the collection (nothing at all when the    *)
(* account has been deleted meanwhile).                                    *)
(***************************************************************************)
C8_LoginWritesOnlyIpHash ==
  [][\A w \in Workers :
       (Answers(w) /\ req[w].op = "verify" /\ loc[w].user_doc.exists) =>
         LET u == req[w].username
         IN  IF db[u].exists
             THEN db' = [db EXCEPT ![u].data.ipHash = hash_IP(req[w].ip)]
             ELSE db' = db]_vars

\* a login has been answered whose account changed its balance and its
\* ipHash between the login's read and now
C8_Witness ==
  /\ last.req.op = "verify"
  /\ last.resp.message = "Logged in successfully"
  /\ LET u == last.req.username
     IN  /\ db[u].exists
         /\ db[u].data.balance # last.resp.data.data.balance
         /\ db[u].data.ipHash # last.resp.data.data.ipHash
         /\ db[u].data.ipHash = hash_IP(last.req.ip)

(***************************************************************************)
(* C9.  An account is created once: the creating write of a verified       *)
(* request (set, with the 1000.0 grant) is applied only when the account   *)
(* does not exist at the moment of the write.                              *)
(***************************************************************************)
C9_CreatedOnce ==
  [][\A w \in Workers :
       (/\ Answers(w) /\ req[w].op = "verify"
        /\ last'.resp.message = "Account created!")
       => ~db[req[w].username].exists]_vars

(***************************************************************************)
(* C10.  A transfer that is rejected or ends in an error changes no        *)
(* balance: a transfer request changes the collection in no step but the   *)
(* one that answers it with success.                                       *)
(***************************************************************************)
C10_FailedTransferChangesNothing ==
  [][/\ \A w \in Workers :
          (Steps(w) /\ "transfer" \in {req[w].op, req'[w].op} /\ db' # db)
          => Commits(w)
     /\ AnsweredAtOnce("transfer") => db' = db]_vars

\* a transfer has been refused for lack of funds, which its sender had spent
\* in an earlier transfer
C10_Witness ==
  /\ last.req.op = "transfer"
  /\ last.resp.code = 400
  /\ last.resp.error = "Insufficient funds"
  /\ db[last.req.sender].exists
  /\ FLt(db[last.req.sender].data.balance, Fin(InitialGrant))

(***************************************************************************)
(* C11.  The step that commits a transfer takes the amount from the        *)
(* sender's balance as stored before the step and adds it to the           *)
(* recipient's balance as stored before the step (float arithmetic), and   *)
(* the new_balance of the answer is the sender's balance as stored after   *)
(* the step, whatever other transfers have committed since the request     *)
(* was received.                                                           *)
(***************************************************************************)
C11_TransferMovesAmount ==
  [][\A w \in Workers :
       Commits(w) =>
         LET s == req[w].sender
             r == req[w].recipient
         IN  /\ db[s].exists /\ db[r].exists
             /\ db'[s].data.balance = FSub(db[s].data.balance, loc[w].amount)
             /\ db'[r].data.balance = FAdd(db[r].data.balance, loc[w].amount)
             /\ last'.resp.new_balance = db'[s].data.balance]_vars

\* the request received first has committed a transfer of 600 after the
\* request received second had credited its sender: it answers 1000
C11_Witness ==
  /\ Succeeded("transfer")
  /\ last.n = 1
  /\ started = 2
  /\ last.req.amount = JNum(600)
  /\ last.resp.new_balance = Fin(InitialGrant)
  /\ db[last.req.sender].data.balance = Fin(InitialGrant)

(***************************************************************************)
(* C12.  A RegisterOrLogin request whose code is not found in the profile  *)
(* comments is answered 401 in the step that receives it and changes       *)
(* nothing; only a verified request goes on to the write, and every step   *)
(* of a RegisterOrLogin request that changes the collection belongs to a   *)
(* verified request.                                                       *)
(***************************************************************************)
C12_UnverifiedWritesNothing ==
  [][/\ \A w \in Workers :
          /\ (pc[w] = "idle" /\ pc'[w] = "v_write") => req'[w].verified
          /\ (Steps(w) /\ "verify" \in {req[w].op, req'[w].op} /\ db' # db)
               => req[w].verified
     /\ (AnsweredAtOnce("verify") /\ ~last'.req.verified)
          => last'.resp.code = 401 /\ db' = db /\ pc' = pc]_vars

\* an unverified request for an existing account, from an address other
\* than the one on record, has been refused
C12_Witness ==
  /\ last.req.op = "verify"
  /\ ~last.req.verified
  /\ last.resp.code = 401
  /\ db[last.req.username].exists
  /\ db[last.req.username].data.ipHash # hash_IP(last.req.ip)

(***************************************************************************)
(* C14.  A SetWarning request whose `admin` is not ADMIN_USERNAME is       *)
(* answered 403 and changes nothing; one whose `admin` is ADMIN_USERNAME   *)
(* changes at most the warning of its target, to its message.              *)
(***************************************************************************)
C14_WarningByAdminOnly ==
  [][AnsweredAtOnce("warn") =>
       IF last'.req.admin = ADMIN_USERNAME
       THEN \/ db' = db
            \/ db' = [db EXCEPT ![last'.req.target].data.warning = last'.req.message]
       ELSE last'.resp.code = 403 /\ db' = db]_vars

\* a request of another identity to warn an existing account that has no
\* warning has been refused
C14_Witness ==
  /\ last.req.op = "warn"
  /\ last.req.admin # ADMIN_USERNAME
  /\ last.resp.code = 403
  /\ db[last.req.target].exists
  /\ db[last.req.target].data.warning = None

(***************************************************************************)
(* C15.  The write that creates an account stores balance 1000.0, an       *)
(* activity list of one entry, which is the join (type 1) of that user,    *)
(* warning None, and as ipHash the sentinel "unknown" when the request has *)
(* no address and otherwise the digest of the address without its first    *)
(* two characters, which is not the sentinel.                              *)
(***************************************************************************)
C15_NewAccountRecord ==
  [][\A w \in Workers :
       (/\ Answers(w) /\ req[w].op = "verify"
        /\ last'.resp.message = "Account created!")
       => LET u == req[w].username
              ip == req[w].ip
              d == db'[u].data
          IN  /\ db'[u].exists
              /\ d.balance = Fin(1000)
              /\ Len(d.activity) = 1
              /\ d.activity[1].type = 1
              /\ d.activity[1].user = u
              /\ d.warning = None
              /\ IF ip = NoAddr THEN d.ipHash = Unknown
                 ELSE /\ d.ipHash # Unknown
                      /\ d.ipHash = <<"sha256">> \o SubSeq(ip, 3, Len(ip))]_vars

\* an account has been created in this run by a request without address,
\* and another by a request with one
C15_Witness ==
  /\ last.req.op = "verify"
  /\ last.resp.message = "Account created!"
  /\ \E u, v \in Users :
       /\ db[u].exists /\ db[v].exists
       /\ db[u].data.joinDate >= 1 /\ db[v].data.joinDate >= 1
       /\ db[u].data.ipHash = Unknown
       /\ db[v].data.ipHash = <<"sha256", "7">>

(***************************************************************************)
(* C16.  The leaderboard answered holds one entry for every account that   *)
(* exists when the query reads, and no other entry; each entry carries the *)
(* stored balance of its account; no entry has a balance lower than that   *)
(* of an entry after it; and the request changes neither the collection    *)
(* nor the config.                                                         *)
(***************************************************************************)
C16_LeaderboardSortedAndComplete ==
  [][AnsweredAtOnce("leaderboard") =>
       LET lb == last'.resp.leaderboard
           existing == {u \in Users : db[u].exists}
       IN  /\ Len(lb) = Cardinality(existing)
           /\ \A u \in existing :
                \E i \in 1..Len(lb) :
                  /\ lb[i].username = u
                  /\ lb[i].balance = db[u].data.balance
                  /\ \A j \in 1..Len(lb) : lb[j].username = u => j = i
           /\ \A i, j \in 1..Len(lb) :
                i < j => ~FLt(lb[i].balance, lb[j].balance)
           /\ db' = db /\ config' = config]_vars

\* a leaderboard of two accounts has been answered after a transfer from
\* alice, who would come first by name, to bob
C16_Witness ==
  /\ Succeeded("leaderboard")
  /\ Len(last.resp.leaderboard) = 2
  /\ last.resp.leaderboard[1].username = "bob"
  /\ last.resp.leaderboard[1].balance = Fin(1600)
  /\ last.resp.leaderboard[2].balance = Fin(400)

(***************************************************************************)
(* C17.  A transfer that is refused reports the earliest failing check of  *)
(* the order amount > 0, sender # recipient, global lock, both accounts    *)
(* exist, alt-account rule, sufficient funds: the first three on the       *)
(* request and the config as they are when the request is received, the    *)
(* last three on the two documents the transaction read (stated here for   *)
(* the finite amounts and the errors of these checks).                     *)
(***************************************************************************)
\* the check an error response reports
CheckReported(resp) ==
  IF resp.code = 503 THEN "lock"
  ELSE IF resp.error \in {"Amount must be positive", "Cannot send money to yourself"}
  THEN "validation"
  ELSE IF resp.error \in {"Sender does not exist", "Recipient does not exist"}
  THEN "not found"
  ELSE IF resp.error = "Insufficient funds" THEN "funds"
  ELSE "none"
\* the earliest check of the order that fails
FirstFailingEarly(amount, s, r) ==
  IF FLe(amount, Fin(0)) THEN "validation"
  ELSE IF s = r THEN "validation"
  ELSE IF Locked THEN "lock"
  ELSE "none"
FirstFailingLate(sender_doc, recipient_doc, amount) ==
  IF ~sender_doc.exists \/ ~recipient_doc.exists THEN "not found"
  ELSE IF sender_doc.data.ipHash = recipient_doc.data.ipHash THEN "alt account"
  ELSE IF FLt(sender_doc.data.balance, amount) THEN "funds"
  ELSE "none"
C17_EarliestFailingCheckReported ==
  [][/\ (/\ AnsweredAtOnce("transfer")
         /\ CheckReported(last'.resp) # "none"
         /\ ~IsNaN(ToFloat(last'.req.amount)))
        => CheckReported(last'.resp) =
             FirstFailingEarly(ToFloat(last'.req.amount), last'.req.sender,
                               last'.req.recipient)
     /\ \A w \in Workers :
          (/\ Answers(w) /\ req[w].op = "transfer"
           /\ CheckReported(last'.resp) # "none"
           /\ ~IsNaN(loc[w].amount))
          => CheckReported(last'.resp) =
               FirstFailingLate(loc[w].sender_snapshot, db[req[w].recipient],
                                loc[w].amount)]_vars

(***************************************************************************)
(* C18.  A deletion removes the document of its user and nothing else.  A  *)
(* user that is absent becomes present only by the creating write of a     *)
(* verified RegisterOrLogin for that user, and nothing is written to an    *)
(* absent user otherwise.  A step of a transfer that names an absent user  *)
(* changes nothing and is no commit, and the transaction that read an      *)
(* absent account is answered 400; a SetWarning or ClearWarning that names *)
(* an absent user fails and changes nothing.                               *)
(***************************************************************************)
C18_DeletedStaysAbsent ==
  [][/\ AnsweredAtOnce("delete")
          => db' = [db EXCEPT ![last'.req.username] = NoDoc]
     /\ \A u \in Users :
          ~db[u].exists =>
            IF db'[u].exists
            THEN \E w \in Workers :
                   /\ Answers(w) /\ req[w].op = "verify" /\ req[w].username = u
                   /\ req[w].verified
                   /\ last'.resp.message = "Account created!"
            ELSE db'[u] = db[u]
     /\ \A w \in Workers :
          LET s == req[w].sender
              r == req[w].recipient
          IN  /\ (/\ Steps(w) /\ req[w].op = "transfer"
                  /\ ~db[s].exists \/ ~db[r].exists)
                 => db' = db /\ ~Commits(w)
              /\ (/\ Steps(w) /\ pc[w] = "t_read_recipient"
                  /\ ~loc[w].sender_snapshot.exists \/ ~db[r].exists)
                 => Answers(w) /\ last'.resp.code = 400 /\ db' = db
     /\ (/\ AnsweredAtOnce("warn") \/ AnsweredAtOnce("dismiss")
         /\ ~db[IF last'.req.op = "warn" THEN last'.req.target
                ELSE last'.req.username].exists)
        => last'.resp.code # 200 /\ db' = db]_vars

\* the recipient of a transfer that has read both accounts and is about to
\* commit has just been deleted
C18_Witness ==
  /\ Succeeded("delete")
  /\ ~db[last.req.username].exists
  /\ \E w \in Workers :
       /\ pc[w] = "t_commit"
       /\ req[w].recipient = last.req.username
       /\ loc[w].recipient_snapshot.exists
       /\ loc[w].stale

(***************************************************************************)
(* C19.  Each operation writes only its own fields.  Of an account that    *)
(* exists before and after a step, the balance changes only in the commit  *)
(* of a transfer that names it, the ipHash only in the write of a verified *)
(* RegisterOrLogin for it, the warning only in a SetWarning or             *)
(* ClearWarning for it, and no other field changes.  The write of a        *)
(* RegisterOrLogin for an account that exists changes nothing but that     *)
(* ipHash, a SetWarning or ClearWarning nothing but that warning, a        *)
(* transfer nothing but the balances of its two parties, and the reads     *)
(* nothing at all.                                                         *)
(***************************************************************************)
\* the collection d with the fields of the accounts in S taken from e where
\* `balance`, `ipHash`, `warning` say so
WithFields(d, e, S, balance, ipHash, warning) ==
  [u \in Users |->
     IF u \in S /\ d[u].exists
     THEN [d[u] EXCEPT
             !.data.balance = IF balance THEN e[u].data.balance ELSE @,
             !.data.ipHash = IF ipHash THEN e[u].data.ipHash ELSE @,
             !.data.warning = IF warning THEN e[u].data.warning ELSE @]
     ELSE d[u]]
C19_OnlyOwnFields ==
  [][/\ \A u \in Users :
          (db[u].exists /\ db'[u].exists) =>
            /\ db'[u].data.balance # db[u].data.balance
                 => \E w \in Workers :
                      Commits(w) /\ u \in {req[w].sender, req[w].recipient}
            /\ db'[u].data.ipHash # db[u].data.ipHash
                 => \E w \in Workers :
                      Answers(w) /\ req[w].op = "verify" /\ req[w].username = u
            /\ db'[u].data.warning # db[u].data.warning
                 => \/ AnsweredAtOnce("warn") /\ last'.req.target = u
                    \/ AnsweredAtOnce("dismiss") /\ last'.req.username = u
            /\ db'[u].data = [db[u].data EXCEPT
                                !.balance = db'[u].data.balance,
                                !.ipHash = db'[u].data.ipHash,
                                !.warning = db'[u].data.warning]
     /\ \A w \in Workers :
          /\ (pc[w] = "idle" /\ pc'[w] # "idle") => db' = db
          /\ (/\ Steps(w) /\ req[w].op = "verify"
              /\ db[req[w].username].exists)
             => db' = WithFields(db, db', {req[w].username}, FALSE, TRUE, FALSE)
          /\ (Steps(w) /\ req[w].op = "transfer")
             => db' = WithFields(db, db', {req[w].sender, req[w].recipient},
                                 TRUE, FALSE, FALSE)
     /\ AnsweredAtOnce("verify") \/ AnsweredAtOnce("transfer") => db' = db
     /\ AnsweredAtOnce("warn")
          => db' = WithFields(db, db', {last'.req.target}, FALSE, FALSE, TRUE)
     /\ AnsweredAtOnce("dismiss")
          => db' = WithFields(db, db', {last'.req.username}, FALSE, FALSE, TRUE)
     /\ AnsweredAtOnce("data") \/ AnsweredAtOnce("leaderboard")
          => db' = db /\ config' = config]_vars

(***************************************************************************)
(* C20.  The account data that a successful RegisterOrLogin answers is the *)
(* document of its user as stored right after the write of that request;   *)
(* the ipHash answered is hash_IP of the request's address.                *)
(***************************************************************************)
C20_AnswerIsStoredRecord ==
  [][\A w \in Workers :
       (Answers(w) /\ req[w].op = "verify" /\ last'.resp.code = 200)
       => /\ last'.resp.data = db'[req[w].username]
          /\ last'.resp.data.data.ipHash = hash_IP(req[w].ip)]_vars
====
